---- MODULE Spec2Model ----
(***************************************************************************)
(* A model of relative-panel-macos-poc: src/src/main.rs (the one-shot      *)
(* overlay program) and src/src/window_search.rs (the window query         *)
(* library).                                                               *)
(*                                                                         *)
(* Strings are sequences of one-character strings, so that to_lowercase,   *)
(* contains, split, strip_prefix, format! and parse are computed on the    *)
(* characters as the code computes them.  f64 values are modelled by       *)
(* integers (every value the model uses is integral, and Rust prints an    *)
(* integral f64 without a fraction).  Option<T> is a sequence: None is the *)
(* empty sequence and Some(v) is <<v>>.                                    *)
(***************************************************************************)
EXTENDS Integers, Sequences, FiniteSets, TLC

\* ------------------------------------------------------------------ bounds

\* Longest compositor window list given to main.
MaxWindows == 3
\* Longest compositor window list given to the two query functions.
MaxQueryWindows == 2
\* Most comma-separated parts of a raw bounds string given to the parser.
MaxParts == 2
\* Builder calls made on one WindowSearchCriteria.
MaxCalls == 2

\* ----------------------------------------------------------------- options

None == <<>>
Some(v) == <<v>>
IsSome(o) == o # <<>>
Unwrap(o) == o[1]
UnwrapOr(o, d) == IF o = <<>> THEN d ELSE o[1]

\* `let v = value; body`: Body of the value, which is computed once (a name
\* bound over a set holds a value, a LET name is computed at each use).
Bind(value, Body(_)) == CHOOSE r \in { Body(v) : v \in {value} } : TRUE

\* ----------------------------------------------------------------- strings

UpperChars == <<"A", "B", "C", "D", "E", "F", "G", "H", "I", "J", "K", "L", "M",
                "N", "O", "P", "Q", "R", "S", "T", "U", "V", "W", "X", "Y", "Z">>
LowerChars == <<"a", "b", "c", "d", "e", "f", "g", "h", "i", "j", "k", "l", "m",
                "n", "o", "p", "q", "r", "s", "t", "u", "v", "w", "x", "y", "z">>
DigitChars == <<"0", "1", "2", "3", "4", "5", "6", "7", "8", "9">>

LowerChar(c) ==
    IF \E j \in 1..Len(UpperChars) : UpperChars[j] = c
    THEN LowerChars[CHOOSE j \in 1..Len(UpperChars) : UpperChars[j] = c]
    ELSE c

\* str::to_lowercase
ToLowercase(s) == [j \in 1..Len(s) |-> LowerChar(s[j])]

\* str::contains(&str): the needle occurs at some offset of the haystack.
Contains(hay, needle) ==
    \E p \in 0..(Len(hay) - Len(needle)) : SubSeq(hay, p + 1, p + Len(needle)) = needle

\* str::strip_prefix: Some(rest) when s starts with pre, None otherwise.
StripPrefix(s, pre) ==
    IF Len(pre) <= Len(s) /\ SubSeq(s, 1, Len(pre)) = pre
    THEN Some(SubSeq(s, Len(pre) + 1, Len(s)))
    ELSE None

\* The offset of the first occurrence of sep in s, or -1.
FindFirst(s, sep) ==
    IF \E p \in 0..(Len(s) - Len(sep)) : SubSeq(s, p + 1, p + Len(sep)) = sep
    THEN CHOOSE p \in 0..(Len(s) - Len(sep)) :
            /\ SubSeq(s, p + 1, p + Len(sep)) = sep
            /\ \A q \in 0..(p - 1) : SubSeq(s, q + 1, q + Len(sep)) # sep
    ELSE -1

\* str::split(sep) for a non-empty separator: the pieces between the
\* successive non-overlapping occurrences of sep, scanned left to right.
RECURSIVE Split(_, _)
Split(s, sep) ==
    Bind(FindFirst(s, sep), LAMBDA p :
        IF p < 0
        THEN <<s>>
        ELSE Bind(SubSeq(s, p + Len(sep) + 1, Len(s)), LAMBDA rest :
                 <<SubSeq(s, 1, p)>> \o Split(rest, sep)))

\* ----------------------------------------------------------------- numbers

RECURSIVE FormatNat(_)
FormatNat(n) ==
    IF n < 10
    THEN <<DigitChars[n + 1]>>
    ELSE FormatNat(n \div 10) \o <<DigitChars[(n % 10) + 1]>>

\* format!("{}", v) of an integral f64: the decimal digits, "-" before a
\* negative value, no fraction and no exponent.
FormatNum(n) == IF n < 0 THEN <<"-">> \o FormatNat(0 - n) ELSE FormatNat(n)

DigitValue(c) == (CHOOSE j \in 1..Len(DigitChars) : DigitChars[j] = c) - 1
IsDigit(c) == \E j \in 1..Len(DigitChars) : DigitChars[j] = c

RECURSIVE DigitsValue(_)
DigitsValue(ds) ==
    IF ds = <<>>
    THEN 0
    ELSE DigitsValue(SubSeq(ds, 1, Len(ds) - 1)) * 10 + DigitValue(ds[Len(ds)])

\* str::parse::<f64>() on the strings of the model (digits, signs, letters
\* other than those of "inf", "nan" and exponents): an optional sign and at
\* least one digit, nothing else; anything else is Err, here None.
ParseNum(s) ==
    LET signed == s # <<>> /\ s[1] \in {"+", "-"}
        body == IF signed THEN Tail(s) ELSE s
    IN  IF body = <<>> \/ \E j \in 1..Len(body) : ~IsDigit(body[j])
        THEN None
        ELSE IF signed /\ s[1] = "-"
             THEN Some(0 - DigitsValue(body))
             ELSE Some(DigitsValue(body))

\* ------------------------------------------------------- string constants

Str_x == <<"x", ":">>
Str_y == <<"y", ":">>
Str_w == <<"w", ":">>
Str_h == <<"h", ":">>
Str_z == <<"z", ":">>
CommaSpace == <<",", " ">>
BoundsNotFound == <<"b", "o", "u", "n", "d", "s", "_", "n", "o", "t", "_",
                    "f", "o", "u", "n", "d">>
Str_Unknown == <<"U", "n", "k", "n", "o", "w", "n">>
Str_NoTitle == <<"N", "o", " ", "T", "i", "t", "l", "e">>
Str_Open == <<"O", "p", "e", "n">>
Str_open == <<"o", "p", "e", "n">>
Str_Finder == <<"F", "i", "n", "d", "e", "r">>
Str_Safari == <<"S", "a", "f", "a", "r", "i">>
Str_Dock == <<"D", "o", "c", "k">>
Str_dock == <<"d", "o", "c", "k">>
Str_find == <<"f", "i", "n", "d">>
Str_MyDockApp == <<"M", "y", "D", "o", "c", "k", "A", "p", "p">>
Str_PanelDetected == <<"P", "A", "N", "E", "L", " ", "D", "E", "T", "E", "C", "T",
                       "E", "D", ":", " ">>

\* ----------------------------------------------------- bounds (main.rs)

\* parse_bounds_from_dict: dict is a window record, whose bounds entry is
\* None (no kCGWindowBounds) or Some of <<X, Y, Width, Height>>.
FormatBounds(b) ==
    Str_x \o FormatNum(b[1]) \o CommaSpace \o Str_y \o FormatNum(b[2]) \o CommaSpace
        \o Str_w \o FormatNum(b[3]) \o CommaSpace \o Str_h \o FormatNum(b[4])

\* parse_bounds_from_dict with X and Y written in each other's place.
parse_bounds_from_dict_swapped(dict) ==
    IF IsSome(dict.bounds)
    THEN LET b == Unwrap(dict.bounds) IN FormatBounds(<<b[2], b[1], b[3], b[4]>>)
    ELSE BoundsNotFound
parse_bounds_from_dict(dict) ==
    IF IsSome(dict.bounds)
    THEN FormatBounds(Unwrap(dict.bounds))
    ELSE BoundsNotFound

\* One iteration of the loop of parse_bounds_values over a part: acc is
\* None once a `?` has returned, Some(<<x, y, w, h>>) otherwise.
ParsePart(acc, part) ==
    IF acc = None THEN None
    ELSE LET v == Unwrap(acc)
             px == StripPrefix(part, Str_x)
             py == StripPrefix(part, Str_y)
             pw == StripPrefix(part, Str_w)
             ph == StripPrefix(part, Str_h)
             set(pos, val_str) ==
                 LET n == ParseNum(val_str)
                 IN  IF n = None THEN None ELSE Some([v EXCEPT ![pos] = Unwrap(n)])
         IN  IF IsSome(px) THEN set(1, Unwrap(px))
             ELSE IF IsSome(py) THEN set(2, Unwrap(py))
             ELSE IF IsSome(pw) THEN set(3, Unwrap(pw))
             ELSE IF IsSome(ph) THEN set(4, Unwrap(ph))
             ELSE acc

\* The loop `for part in bounds_str.split(", ")` over the parts left.
RECURSIVE ParseParts(_, _, _)
ParseParts(acc, parts, j) ==
    IF j > Len(parts)
    THEN acc
    ELSE Bind(ParsePart(acc, parts[j]), LAMBDA next : ParseParts(next, parts, j + 1))

\* parse_bounds_values
parse_bounds_values(bounds_str) ==
    Bind(Split(bounds_str, CommaSpace), LAMBDA parts :
        ParseParts(Some(<<0, 0, 0, 0>>), parts, 1))

\* --------------------------------------------------- ignore list (both)

\* should_ignore_app (main.rs and window_search.rs hold the same function)
\* should_ignore_app with == in the place of contains.
should_ignore_app_exact(app_name, ignored) ==
    LET app_lower == ToLowercase(app_name)
    IN  \E ig \in ignored : app_lower = ig
should_ignore_app(app_name, ignored) ==
    LET app_lower == ToLowercase(app_name)
    IN  \E ig \in ignored : Contains(app_lower, ig)

\* get_ignored_apps: the literals are lower case already, to_lowercase
\* leaves them as they are.
get_ignored_apps ==
    { ToLowercase(<<"n", "o", "t", "i", "f", "i", "c", "a", "t", "i", "o", "n", " ",
                    "c", "e", "n", "t", "e", "r">>),
      ToLowercase(<<"n", "o", "t", "i", "f", "i", "c", "a", "t", "i", "o", "n",
                    "c", "e", "n", "t", "e", "r">>),
      ToLowercase(<<"s", "k", "e", "t", "c", "h", "y", "b", "a", "r">>),
      ToLowercase(<<"b", "o", "r", "d", "e", "r", "s">>),
      ToLowercase(<<"c", "o", "n", "t", "r", "o", "l", " ", "c", "e", "n", "t", "e", "r">>),
      ToLowercase(<<"c", "o", "n", "t", "r", "o", "l", "c", "e", "n", "t", "e", "r">>),
      ToLowercase(<<"d", "o", "c", "k">>),
      ToLowercase(<<"m", "e", "n", "u", "b", "a", "r">>),
      ToLowercase(<<"s", "p", "o", "t", "l", "i", "g", "h", "t">>) }

\* ------------------------------------------------- the compositor's data

\* One record of the compositor's window list, as the code reads it: a null
\* array entry, or a dictionary whose kCGWindowOwnerName, kCGWindowName,
\* kCGWindowBounds, kCGWindowNumber and kCGWindowOwnerPID entries are each
\* present (Some) or absent (None).
Dict(owner, title, bounds, number, pid) ==
    [null |-> FALSE, owner |-> owner, title |-> title, bounds |-> bounds,
     number |-> number, pid |-> pid]
NullDict ==
    [null |-> TRUE, owner |-> None, title |-> None, bounds |-> None,
     number |-> None, pid |-> None]

\* The window records the window lists of the model are drawn from.  The
\* compositor gives every window its own window number.
FinderOpen == Dict(Some(Str_Finder), Some(Str_Open), Some(<<10, 20, 30, 40>>), Some(1), Some(101))
SafariOpenNoBounds == Dict(Some(Str_Safari), Some(Str_Open), None, Some(2), Some(102))
DockOpen == Dict(Some(Str_Dock), Some(Str_Open), Some(<<0, 50, 60, 5>>), Some(3), Some(103))
NoOwnerOpen == Dict(None, Some(Str_Open), Some(<<-5, 0, 7, 3>>), Some(4), Some(104))
FinderLowerOpen == Dict(Some(Str_Finder), Some(Str_open), Some(<<1, 2, 3, 4>>), Some(5), Some(101))
MyDockAppOpen == Dict(Some(Str_MyDockApp), Some(Str_Open), Some(<<8, 9, 10, 11>>), Some(6), Some(106))
SafariNoTitle == Dict(Some(Str_Safari), None, Some(<<12, 13, 14, 15>>), Some(7), Some(102))

\* The records given to main, and those given to the two query functions.
MainDicts == {FinderOpen, SafariOpenNoBounds, DockOpen, NoOwnerOpen, FinderLowerOpen, NullDict}
Dicts == MainDicts \cup {MyDockAppOpen, SafariNoTitle}

\* The sequences over S of length at most n in which nothing occurs twice.
InjSeqs(S, n) ==
    UNION { { f \in [1..m -> S] : \A a, b \in 1..m : a # b => f[a] # f[b] } : m \in 0..n }

\* What CGWindowListCopyWindowInfo may answer: null, or a list.
ListAnswers(S, n) == {None} \cup { Some(l) : l \in InjSeqs(S, n) }
MainListAnswers == ListAnswers(MainDicts, MaxWindows)
QueryListAnswers == ListAnswers(Dicts, MaxQueryWindows)

\* Heights of the main screen (NSScreen::mainScreen().frame().size.height).
ScreenHeights == {100, 1080}

\* What the toolkit's allocations give one call of create_overlay_panel:
\* everything, or nil for the panel, the content view, the button or the
\* close button.
AllocOutcomes == {"ok", "panel_nil", "content_view_nil", "button_nil", "close_button_nil"}

\* ------------------------------------------------------------------ state

VARIABLES
    window_list,      \* CGWindowListCopyWindowInfo's answer: None (null) or Some(list)
    screen_height,    \* the main screen's height
    ignored_apps,     \* main: ignored_apps; the queries: the ignore-list argument
    pc,               \* where main (or the query driver) is
    i,                \* find_open_windows: dictionaries handled so far
    total_processed,  \* find_open_windows: total_processed
    open_windows,     \* find_open_windows: open_windows
    results,          \* find_open_windows' return value, None before it returns
    k,                \* main: windows of results.open_windows handled so far
    panels,           \* main: panels
    stdout,           \* what main has printed, one record per block of lines
    criteria,         \* find_windows: the WindowSearchCriteria argument
    calls,            \* the builder calls that made criteria, oldest first
    fw_i,             \* find_windows: dictionaries handled so far
    fw_total,         \* find_windows: total_processed
    matched_windows,  \* find_windows: matched_windows
    fw_results,       \* find_windows' return value, None before it returns
    m_call,           \* a call of WindowSearchCriteria::matches: its arguments
    m_result,         \* ... and its return value, None before it returns
    b_dict,           \* a call of parse_bounds_from_dict: the dictionary
    b_str,            \* the bounds string: None before it is made
    b_parsed          \* parse_bounds_values' return value in <<...>>, None before

mainVars == <<window_list, screen_height, ignored_apps, pc, i, total_processed,
              open_windows, results, k, panels, stdout>>
fwVars == <<criteria, calls, fw_i, fw_total, matched_windows, fw_results>>
mVars == <<m_call, m_result>>
bVars == <<b_dict, b_str, b_parsed>>
vars == <<mainVars, fwVars, mVars, bVars>>

Ok(v) == [ok |-> TRUE, val |-> v]
Err(e) == [ok |-> FALSE, val |-> e]

\* WindowSearchCriteria::new
NewCriteria == [title |-> None, app_name |-> None, ignored_apps |-> {}]

IdleMain ==
    /\ window_list = None
    /\ screen_height = 0
    /\ ignored_apps = {}
    /\ pc = "idle"
    /\ i = 0
    /\ total_processed = 0
    /\ open_windows = <<>>
    /\ results = None
    /\ k = 0
    /\ panels = <<>>
    /\ stdout = <<>>
IdleFw ==
    /\ criteria = NewCriteria
    /\ calls = <<>>
    /\ fw_i = 0
    /\ fw_total = 0
    /\ matched_windows = <<>>
    /\ fw_results = None
IdleM ==
    /\ m_call = None
    /\ m_result = None
IdleB ==
    /\ b_dict = None
    /\ b_str = None
    /\ b_parsed = None

\* ------------------------------------------- find_open_windows (main.rs)

\* The OpenWindow that find_open_windows builds from a dictionary.
OpenWindowOf(dict) ==
    [title |-> UnwrapOr(dict.title, Str_NoTitle),
     app_name |-> UnwrapOr(dict.owner, Str_Unknown),
     bounds |-> parse_bounds_from_dict(dict),
     window_number |-> UnwrapOr(dict.number, 0),
     pid |-> UnwrapOr(dict.pid, 0)]

\* Whether find_open_windows counts the dictionary in total_processed:
\* it is not null and its owner is not ignored.
OpenCounts(dict, ignored) ==
    /\ ~dict.null
    /\ ~should_ignore_app(UnwrapOr(dict.owner, Str_Unknown), ignored)

\* Whether find_open_windows pushes the dictionary's window.
OpenKeeps(dict, ignored) ==
    /\ OpenCounts(dict, ignored)
    /\ UnwrapOr(dict.title, Str_NoTitle) = Str_Open

\* The window list is null: find_open_windows returns Err.
FindOpenWindowsNull ==
    /\ pc = "find_open_windows"
    /\ window_list = None
    /\ results' = Some(Err("Failed to get window list"))
    /\ pc' = "queried"
    /\ UNCHANGED <<window_list, screen_height, ignored_apps, i, total_processed,
                   open_windows, k, panels, stdout>>
    /\ UNCHANGED <<fwVars, mVars, bVars>>

\* One iteration of `for i in 0..count`.
FindOpenWindowsStep ==
    /\ pc = "find_open_windows"
    /\ window_list # None
    /\ i < Len(Unwrap(window_list))
    /\ LET window_dict == Unwrap(window_list)[i + 1]
       IN  /\ total_processed' =
                 IF OpenCounts(window_dict, ignored_apps)
                 THEN total_processed + 1 ELSE total_processed
           /\ open_windows' =
                 IF OpenKeeps(window_dict, ignored_apps)
                 THEN Append(open_windows, OpenWindowOf(window_dict)) ELSE open_windows
    /\ i' = i + 1
    /\ UNCHANGED <<window_list, screen_height, ignored_apps, pc, results, k, panels, stdout>>
    /\ UNCHANGED <<fwVars, mVars, bVars>>

\* The loop is over: find_open_windows returns Ok.
FindOpenWindowsReturn ==
    /\ pc = "find_open_windows"
    /\ window_list # None
    /\ i = Len(Unwrap(window_list))
    /\ results' = Some(Ok([total_windows |-> total_processed, open_windows |-> open_windows]))
    /\ pc' = "queried"
    /\ UNCHANGED <<window_list, screen_height, ignored_apps, i, total_processed,
                   open_windows, k, panels, stdout>>
    /\ UNCHANGED <<fwVars, mVars, bVars>>

\* ----------------------------------------- create_overlay_panel (main.rs)

\* The fixed margin added to the window's width.
Margin == 300

\* The panel's frame from the window's rectangle and the screen's height.
\* PanelFrame without the conversion of y.
PanelFrameNoFlip(b, H) == <<b[1], b[2], b[3] + Margin, b[4]>>
PanelFrame(b, H) ==
    LET cg_x == b[1]
        cg_y == b[2]
        orig_width == b[3]
        orig_height == b[4]
        ns_y == H - cg_y - orig_height
        panel_width == orig_width + Margin
        panel_height == orig_height
        panel_x == cg_x
        panel_y == ns_y
    IN  <<panel_x, panel_y, panel_width, panel_height>>

\* create_overlay_panel: None when the bounds do not parse or the panel,
\* the content view or the button is nil, Some(panel) otherwise.  A panel
\* is the state the calls give it: its frame, its content view's frame,
\* the button's title, whether it has a close button, and whether it is
\* on screen (makeKeyAndOrderFront).
PanelOf(window, frame, alloc) ==
    [frame |-> frame,
     content_view |-> <<0, 0, frame[3], frame[4]>>,
     button_title |-> Str_PanelDetected \o window.app_name,
     close_button |-> alloc # "close_button_nil",
     visible |-> TRUE]

create_overlay_panel(window, H, alloc) ==
    Bind(parse_bounds_values(window.bounds), LAMBDA parsed :
        IF parsed = None THEN None
        ELSE IF alloc = "panel_nil" THEN None
        ELSE IF alloc = "content_view_nil" THEN None
        ELSE IF alloc = "button_nil" THEN None
        ELSE Bind(PanelFrame(Unwrap(parsed), H), LAMBDA frame :
                 Some(PanelOf(window, frame, alloc))))

\* ----------------------------------------------------------- main (main.rs)

Line(tag, n) == [tag |-> tag, n |-> n]

\* MainMatch whose Err arm leaves main at once.
MainMatchErrExits ==
    /\ pc = "queried"
    /\ IF ~Unwrap(results).ok
       THEN /\ stdout' = Append(stdout, Line("error", 0))
            /\ pc' = "exit"
       ELSE IF Unwrap(results).val.open_windows = <<>>
       THEN /\ stdout' = stdout \o <<Line("scanned", Unwrap(results).val.total_windows),
                                     Line("none_found", 0)>>
            /\ pc' = "complete"
       ELSE /\ stdout' = stdout \o <<Line("scanned", Unwrap(results).val.total_windows),
                                     Line("found", Len(Unwrap(results).val.open_windows))>>
            /\ pc' = "create"
    /\ k' = 0
    /\ panels' = <<>>
    /\ UNCHANGED <<window_list, screen_height, ignored_apps, i, total_processed,
                   open_windows, results>>
    /\ UNCHANGED <<fwVars, mVars, bVars>>

\* `match find_open_windows(..)`: the Err arm, the empty arm, or on to the
\* loop over results.open_windows with an empty panels.
MainMatch ==
    /\ pc = "queried"
    /\ IF ~Unwrap(results).ok
       THEN /\ stdout' = Append(stdout, Line("error", 0))
            /\ pc' = "complete"
       ELSE IF Unwrap(results).val.open_windows = <<>>
       THEN /\ stdout' = stdout \o <<Line("scanned", Unwrap(results).val.total_windows),
                                     Line("none_found", 0)>>
            /\ pc' = "complete"
       ELSE /\ stdout' = stdout \o <<Line("scanned", Unwrap(results).val.total_windows),
                                     Line("found", Len(Unwrap(results).val.open_windows))>>
            /\ pc' = "create"
    /\ k' = 0
    /\ panels' = <<>>
    /\ UNCHANGED <<window_list, screen_height, ignored_apps, i, total_processed,
                   open_windows, results>>
    /\ UNCHANGED <<fwVars, mVars, bVars>>

\* MainCreate with the push forgotten.
MainCreateNoPush ==
    /\ pc = "create"
    /\ k < Len(Unwrap(results).val.open_windows)
    /\ \E alloc \in AllocOutcomes :
          \E window \in {Unwrap(results).val.open_windows[k + 1]} :
          \E made \in {create_overlay_panel(window, screen_height, alloc)} :
              /\ panels' = panels
              /\ stdout' = Append(stdout, Line(IF IsSome(made) THEN "created" ELSE "failed",
                                               window.window_number))
    /\ k' = k + 1
    /\ UNCHANGED <<window_list, screen_height, ignored_apps, pc, i, total_processed,
                   open_windows, results>>
    /\ UNCHANGED <<fwVars, mVars, bVars>>

\* MainCreate leaving the loop at the first failure.
MainCreateStopOnFail ==
    /\ pc = "create"
    /\ k < Len(Unwrap(results).val.open_windows)
    /\ \E alloc \in AllocOutcomes :
          \E window \in {Unwrap(results).val.open_windows[k + 1]} :
          \E made \in {create_overlay_panel(window, screen_height, alloc)} :
              IF IsSome(made)
              THEN /\ panels' = Append(panels, Unwrap(made))
                   /\ stdout' = Append(stdout, Line("created", window.window_number))
                   /\ k' = k + 1
              ELSE /\ panels' = panels
                   /\ stdout' = Append(stdout, Line("failed", window.window_number))
                   /\ k' = Len(Unwrap(results).val.open_windows)
    /\ UNCHANGED <<window_list, screen_height, ignored_apps, pc, i, total_processed,
                   open_windows, results>>
    /\ UNCHANGED <<fwVars, mVars, bVars>>

\* One iteration of `for window in &results.open_windows`: the window's
\* lines, create_overlay_panel, push on Some, and the outcome's line.
MainCreate ==
    /\ pc = "create"
    /\ k < Len(Unwrap(results).val.open_windows)
    /\ \E alloc \in AllocOutcomes :
          \E window \in {Unwrap(results).val.open_windows[k + 1]} :
          \E made \in {create_overlay_panel(window, screen_height, alloc)} :
              IF IsSome(made)
              THEN /\ panels' = Append(panels, Unwrap(made))
                   /\ stdout' = Append(stdout, Line("created", window.window_number))
              ELSE /\ panels' = panels
                   /\ stdout' = Append(stdout, Line("failed", window.window_number))
    /\ k' = k + 1
    /\ UNCHANGED <<window_list, screen_height, ignored_apps, pc, i, total_processed,
                   open_windows, results>>
    /\ UNCHANGED <<fwVars, mVars, bVars>>

\* After the loop: with a panel and an NSApp, app.run(); otherwise on to
\* the last line.
\* MainAfterLoop without either test before app.run().
MainAfterLoopAlwaysRun(app_nil) ==
    /\ panels' = panels
    /\ stdout' = stdout \o <<Line("panels_created", Len(panels)), Line("run_loop", 0)>>
    /\ pc' = "run"
MainAfterLoop(app_nil) ==
    /\ panels' = panels
    /\ IF panels # <<>>
       THEN IF ~app_nil
            THEN /\ stdout' = stdout \o <<Line("panels_created", Len(panels)),
                                          Line("run_loop", 0)>>
                 /\ pc' = "run"
            ELSE /\ stdout' = stdout \o <<Line("panels_created", Len(panels)),
                                          Line("no_nsapp", 0)>>
                 /\ pc' = "complete"
       ELSE /\ stdout' = stdout
            /\ pc' = "complete"

MainLoopDone ==
    /\ pc = "create"
    /\ k = Len(Unwrap(results).val.open_windows)
    /\ \E app_nil \in BOOLEAN : MainAfterLoop(app_nil)
    /\ UNCHANGED <<window_list, screen_height, ignored_apps, i, total_processed,
                   open_windows, results, k>>
    /\ UNCHANGED <<fwVars, mVars, bVars>>

\* println!("Complete!") and the return from main.
MainComplete ==
    /\ pc = "complete"
    /\ stdout' = Append(stdout, Line("complete", 0))
    /\ pc' = "exit"
    /\ UNCHANGED <<window_list, screen_height, ignored_apps, i, total_processed,
                   open_windows, results, k, panels>>
    /\ UNCHANGED <<fwVars, mVars, bVars>>

\* Inside app.run(): the user clicks a panel's close button, whose target
\* is the panel and whose action is orderOut:.
RunLoopClose ==
    /\ pc = "run"
    /\ \E p \in 1..Len(panels) :
          /\ panels[p].close_button
          /\ panels[p].visible
          /\ panels' = [panels EXCEPT ![p].visible = FALSE]
    /\ UNCHANGED <<window_list, screen_height, ignored_apps, pc, i, total_processed,
                   open_windows, results, k, stdout>>
    /\ UNCHANGED <<fwVars, mVars, bVars>>

\* ------------------------------------------ matches (window_search.rs)

\* WindowSearchCriteria::matches
\* matches with unwrap_or(false) in the place of unwrap_or(true).
matches_unset_rejects(c, window_title, window_app_name) ==
    IF should_ignore_app(window_app_name, c.ignored_apps)
    THEN FALSE
    ELSE LET title_matches ==
                 IF IsSome(c.title) THEN window_title = Unwrap(c.title) ELSE FALSE
             app_name_matches ==
                 IF IsSome(c.app_name) THEN window_app_name = Unwrap(c.app_name) ELSE FALSE
         IN  title_matches /\ app_name_matches
matches(c, window_title, window_app_name) ==
    IF should_ignore_app(window_app_name, c.ignored_apps)
    THEN FALSE
    ELSE LET title_matches ==
                 IF IsSome(c.title) THEN window_title = Unwrap(c.title) ELSE TRUE
             app_name_matches ==
                 IF IsSome(c.app_name) THEN window_app_name = Unwrap(c.app_name) ELSE TRUE
         IN  title_matches /\ app_name_matches

\* One call of matches on the arguments of m_call.
CallMatches ==
    /\ m_call # None
    /\ m_result = None
    /\ m_result' = Some(matches(criteria, Unwrap(m_call)[1], Unwrap(m_call)[2]))
    /\ UNCHANGED <<mainVars, fwVars, m_call, bVars>>

\* ------------------------- building a WindowSearchCriteria (the builder)

\* with_title: self.title = Some(title.into()).
with_title(c, title) == [c EXCEPT !.title = Some(title)]

\* with_app_name: self.app_name = Some(app_name.into()).
with_app_name(c, app_name) == [c EXCEPT !.app_name = Some(app_name)]

\* with_ignored_apps: self.ignored_apps = ignored_apps, the set as given.
with_ignored_apps(c, ignored) == [c EXCEPT !.ignored_apps = ignored]

\* add_ignored_app: self.ignored_apps.insert(app.into().to_lowercase()).
add_ignored_app(c, app) ==
    [c EXCEPT !.ignored_apps = c.ignored_apps \cup {ToLowercase(app)}]

\* Arguments given to the builder.
BuildTitles == {Str_Open}
BuildAppNames == {Str_Finder}
BuildIgnoreSets == { {}, {Str_Dock}, {Str_dock, Str_find} }
BuildIgnoreNames == {Str_Dock, Str_dock, Str_Finder}

Call(method, arg) == [method |-> method, arg |-> arg]

WithTitle ==
    /\ pc = "build"
    /\ Len(calls) < MaxCalls
    /\ \E title \in BuildTitles :
          /\ criteria' = with_title(criteria, title)
          /\ calls' = Append(calls, Call("with_title", title))
    /\ UNCHANGED <<mainVars, fw_i, fw_total, matched_windows, fw_results, mVars, bVars>>

WithAppName ==
    /\ pc = "build"
    /\ Len(calls) < MaxCalls
    /\ \E app_name \in BuildAppNames :
          /\ criteria' = with_app_name(criteria, app_name)
          /\ calls' = Append(calls, Call("with_app_name", app_name))
    /\ UNCHANGED <<mainVars, fw_i, fw_total, matched_windows, fw_results, mVars, bVars>>

WithIgnoredApps ==
    /\ pc = "build"
    /\ Len(calls) < MaxCalls
    /\ \E ignored \in BuildIgnoreSets :
          /\ criteria' = with_ignored_apps(criteria, ignored)
          /\ calls' = Append(calls, Call("with_ignored_apps", ignored))
    /\ UNCHANGED <<mainVars, fw_i, fw_total, matched_windows, fw_results, mVars, bVars>>

AddIgnoredApp ==
    /\ pc = "build"
    /\ Len(calls) < MaxCalls
    /\ \E app \in BuildIgnoreNames :
          /\ criteria' = add_ignored_app(criteria, app)
          /\ calls' = Append(calls, Call("add_ignored_app", app))
    /\ UNCHANGED <<mainVars, fw_i, fw_total, matched_windows, fw_results, mVars, bVars>>

\* ------------------------------------- find_windows (window_search.rs)

\* The WindowInfo that find_windows builds from a dictionary: the fields
\* the two queries share (layer, alpha, sharing_state, memory_usage,
\* is_onscreen and bundle_identifier are read the same way and compared
\* nowhere).
WindowInfoOf(dict) ==
    [title |-> UnwrapOr(dict.title, <<>>),
     app_name |-> UnwrapOr(dict.owner, <<>>),
     bounds |-> parse_bounds_from_dict(dict),
     window_number |-> UnwrapOr(dict.number, 0),
     pid |-> UnwrapOr(dict.pid, 0)]

\* find_windows with total_processed += 1 moved below the matches test.
FindCountsAfterMatch(dict, c) ==
    /\ ~dict.null
    /\ ~should_ignore_app(UnwrapOr(dict.owner, <<>>), c.ignored_apps)
    /\ matches(c, UnwrapOr(dict.title, <<>>), UnwrapOr(dict.owner, <<>>))

\* Whether find_windows counts the dictionary in total_processed.
FindCounts(dict, c) ==
    /\ ~dict.null
    /\ ~should_ignore_app(UnwrapOr(dict.owner, <<>>), c.ignored_apps)

\* Whether find_windows pushes the dictionary's window.
FindKeeps(dict, c) ==
    /\ FindCounts(dict, c)
    /\ matches(c, UnwrapOr(dict.title, <<>>), UnwrapOr(dict.owner, <<>>))

\* The query driver calls find_windows once find_open_windows has returned.
FindWindowsNull ==
    /\ pc = "queried"
    /\ fw_results = None
    /\ window_list = None
    /\ fw_results' = Some(Err("Failed to get window list"))
    /\ UNCHANGED <<mainVars, criteria, calls, fw_i, fw_total, matched_windows, mVars, bVars>>

FindWindowsStep ==
    /\ pc = "queried"
    /\ fw_results = None
    /\ window_list # None
    /\ fw_i < Len(Unwrap(window_list))
    /\ LET window_dict == Unwrap(window_list)[fw_i + 1]
       IN  /\ fw_total' = IF FindCounts(window_dict, criteria) THEN fw_total + 1 ELSE fw_total
           /\ matched_windows' =
                 IF FindKeeps(window_dict, criteria)
                 THEN Append(matched_windows, WindowInfoOf(window_dict))
                 ELSE matched_windows
    /\ fw_i' = fw_i + 1
    /\ UNCHANGED <<mainVars, criteria, calls, fw_results, mVars, bVars>>

FindWindowsReturn ==
    /\ pc = "queried"
    /\ fw_results = None
    /\ window_list # None
    /\ fw_i = Len(Unwrap(window_list))
    /\ fw_results' =
          Some(Ok([total_windows |-> fw_total, matched_windows |-> matched_windows]))
    /\ UNCHANGED <<mainVars, criteria, calls, fw_i, fw_total, matched_windows, mVars, bVars>>

\* --------------------------------------------- the bounds string, alone

\* parse_bounds_from_dict on b_dict.
BoundsFormat ==
    /\ b_dict # None
    /\ b_str = None
    /\ b_str' = Some(parse_bounds_from_dict(Unwrap(b_dict)))
    /\ UNCHANGED <<mainVars, fwVars, mVars, b_dict, b_parsed>>

\* parse_bounds_values on b_str.
BoundsParse ==
    /\ b_str # None
    /\ b_parsed = None
    /\ b_parsed' = Some(parse_bounds_values(Unwrap(b_str)))
    /\ UNCHANGED <<mainVars, fwVars, mVars, b_dict, b_str>>

\* ------------------------------------------------------ specifications

\* Ignore lists given to the queries: empty, a lower-case name, the same
\* name capitalised, two names, a fragment of "Unknown", the empty string,
\* and main's list.
IgnoreLists ==
    { {}, {Str_dock}, {Str_Dock}, {Str_dock, Str_find}, {<<"u", "n", "k">>}, {<<>>},
      get_ignored_apps }

Criterias ==
    { [title |-> t, app_name |-> a, ignored_apps |-> ig] :
          t \in {None, Some(Str_Open), Some(Str_open)},
          a \in {None, Some(Str_Finder)},
          ig \in IgnoreLists }

\* main's first lines: ignored_apps is get_ignored_apps(), and the
\* environment gives the compositor's answer and the screen.
MainStart ==
    /\ pc = "main"
    /\ window_list' \in MainListAnswers
    /\ screen_height' \in ScreenHeights
    /\ ignored_apps' = get_ignored_apps
    /\ pc' = "find_open_windows"
    /\ UNCHANGED <<i, total_processed, open_windows, results, k, panels, stdout>>
    /\ UNCHANGED <<fwVars, mVars, bVars>>

\* The process before main.
Init ==
    /\ window_list = None
    /\ screen_height = 0
    /\ ignored_apps = {}
    /\ pc = "main"
    /\ i = 0
    /\ total_processed = 0
    /\ open_windows = <<>>
    /\ results = None
    /\ k = 0
    /\ panels = <<>>
    /\ stdout = <<>>
    /\ IdleFw /\ IdleM /\ IdleB

Next ==
    \/ MainStart
    \/ FindOpenWindowsNull
    \/ FindOpenWindowsStep
    \/ FindOpenWindowsReturn
    \/ MainMatch
    \/ MainCreate
    \/ MainLoopDone
    \/ MainComplete
    \/ RunLoopClose

Spec == Init /\ [][Next]_vars

\* main's own steps: everything but the user's clicks inside app.run().
ProgramStep ==
    \/ MainStart
    \/ FindOpenWindowsNull
    \/ FindOpenWindowsStep
    \/ FindOpenWindowsReturn
    \/ MainMatch
    \/ MainCreate
    \/ MainLoopDone
    \/ MainComplete

\* main is straight-line code on one thread: a step of its own that can be
\* taken is taken.  Nothing makes the user click.
FairSpec == Init /\ [][Next]_vars /\ WF_vars(ProgramStep)

\* The two queries on one window list with one ignore list:
\* find_open_windows(&criteria.ignored_apps), then find_windows(&criteria).
QueryInit ==
    /\ window_list \in QueryListAnswers
    /\ criteria \in Criterias
    /\ calls = <<>>
    /\ ignored_apps = criteria.ignored_apps
    /\ screen_height = 0
    /\ pc = "find_open_windows"
    /\ i = 0
    /\ total_processed = 0
    /\ open_windows = <<>>
    /\ results = None
    /\ k = 0
    /\ panels = <<>>
    /\ stdout = <<>>
    /\ fw_i = 0
    /\ fw_total = 0
    /\ matched_windows = <<>>
    /\ fw_results = None
    /\ IdleM /\ IdleB

QueryNext ==
    \/ FindOpenWindowsNull
    \/ FindOpenWindowsStep
    \/ FindOpenWindowsReturn
    \/ FindWindowsNull
    \/ FindWindowsStep
    \/ FindWindowsReturn

QuerySpec == QueryInit /\ [][QueryNext]_vars

\* A caller of the library: WindowSearchCriteria::new(), at most MaxCalls
\* builder calls on it, then find_windows(&criteria).
BuildDicts == {FinderOpen, DockOpen, MyDockAppOpen}
BuildListAnswers == ListAnswers(BuildDicts, MaxQueryWindows)

\* The caller is done building and calls find_windows, whose first line
\* asks the compositor for the window list.
BuildFindWindows ==
    /\ pc = "build"
    /\ window_list' \in BuildListAnswers
    /\ pc' = "queried"
    /\ UNCHANGED <<screen_height, ignored_apps, i, total_processed, open_windows,
                   results, k, panels, stdout>>
    /\ UNCHANGED <<fwVars, mVars, bVars>>

BuildInit ==
    /\ window_list = None
    /\ screen_height = 0
    /\ ignored_apps = {}
    /\ pc = "build"
    /\ i = 0
    /\ total_processed = 0
    /\ open_windows = <<>>
    /\ results = None
    /\ k = 0
    /\ panels = <<>>
    /\ stdout = <<>>
    /\ IdleFw /\ IdleM /\ IdleB

BuildNext ==
    \/ WithTitle
    \/ WithAppName
    \/ WithIgnoredApps
    \/ AddIgnoredApp
    \/ BuildFindWindows
    \/ FindWindowsNull
    \/ FindWindowsStep
    \/ FindWindowsReturn

BuildSpec == BuildInit /\ [][BuildNext]_vars

\* Window titles and owner names given to matches.
MatchTitles == {Str_Open, Str_open, Str_NoTitle, <<>>}
MatchAppNames == {Str_Finder, Str_Dock, Str_MyDockApp, Str_Safari, Str_Unknown, <<>>}

MatchInit ==
    /\ criteria \in Criterias
    /\ calls = <<>>
    /\ m_call \in { Some(<<t, a>>) : t \in MatchTitles, a \in MatchAppNames }
    /\ m_result = None
    /\ fw_i = 0
    /\ fw_total = 0
    /\ matched_windows = <<>>
    /\ fw_results = None
    /\ IdleMain /\ IdleB

MatchNext == CallMatches

MatchSpec == MatchInit /\ [][MatchNext]_vars

\* Bounds records of the compositor, and dictionaries holding one or none.
BoundsValues == {-5, 0, 7, 12}
BoundsDicts ==
    { Dict(None, None, b, None, None) :
          b \in {None} \cup { Some(r) : r \in [1..4 -> BoundsValues] } }

\* Raw bounds strings: up to MaxParts parts joined by ", ", each a tag and
\* a value text that is a number or not.
RawTags == {Str_x, Str_y, Str_w, Str_h, Str_z}
RawValues == {<<"1", "2">>, <<"-", "3">>, <<"a">>, <<>>}
RawParts == { t \o v : t \in RawTags, v \in RawValues }

RECURSIVE Join(_)
Join(parts) ==
    IF parts = <<>> THEN <<>>
    ELSE IF Len(parts) = 1 THEN parts[1]
    ELSE parts[1] \o CommaSpace \o Join(Tail(parts))

RawStrings == { Join(ps) : ps \in UNION { [1..m -> RawParts] : m \in 0..MaxParts } }

BoundsInit ==
    /\ \/ /\ b_dict \in { Some(d) : d \in BoundsDicts }
          /\ b_str = None
       \/ /\ b_dict = None
          /\ b_str \in { Some(r) : r \in RawStrings }
    /\ b_parsed = None
    /\ IdleMain /\ IdleFw /\ IdleM

BoundsNext ==
    \/ BoundsFormat
    \/ BoundsParse

BoundsSpec == BoundsInit /\ [][BoundsNext]_vars

\* ============================================================ properties

\* What the properties read off the state.
IsWindowLine(l) == l.tag \in {"created", "failed"}
IsCreatedLine(l) == l.tag = "created"
IsFailedLine(l) == l.tag = "failed"
WindowLinesOf(out) == SelectSeq(out, IsWindowLine)
WindowLines == WindowLinesOf(stdout)
CreatedLines == SelectSeq(stdout, IsCreatedLine)
FailedLines == SelectSeq(stdout, IsFailedLine)
NumsOf(lines) == { lines[j].n : j \in 1..Len(lines) }

\* The windows find_open_windows returned, none before it returns or on Err.
MatchedWindows ==
    IF results # None /\ Unwrap(results).ok THEN Unwrap(results).val.open_windows ELSE <<>>
ObservedNums == { MatchedWindows[j].window_number : j \in 1..Len(MatchedWindows) }

\* main is past its loop over the matched windows (or never entered it).
PassOver == pc \in {"run", "complete", "exit"}

\* The compositor's record of the window with number n.
DictOfNumber(n) ==
    CHOOSE d \in { Unwrap(window_list)[j] : j \in 1..Len(Unwrap(window_list)) } :
        ~d.null /\ d.number = Some(n)

\* Whether a name's lower-case form contains an entry of the ignore list.
NameHitsIgnoreList(name, ignored) ==
    \E ig \in ignored : Contains(ToLowercase(name), ig)

\* ------------------------------------------------------------------- C1

\* C1 as stated: once the pass over the newly observed windows is over, the
\* window numbers that hold an overlay are exactly the observed window
\* numbers.
C1_KeysEqualObserved == PassOver => NumsOf(CreatedLines) = ObservedNums

\* C1, amended: main makes one pass from an empty set of overlays and
\* closes none; once the pass is over every observed window number has
\* either a newly created overlay in panels or a logged creation failure,
\* never both, so the overlays' window numbers are the observed ones less
\* those whose creation failed.
C1_KeysAreObservedLessFailed ==
    PassOver =>
        /\ NumsOf(CreatedLines) \cup NumsOf(FailedLines) = ObservedNums
        /\ NumsOf(CreatedLines) \cap NumsOf(FailedLines) = {}
        /\ Len(panels) = Cardinality(NumsOf(CreatedLines))

C1_Witness ==
    /\ PassOver
    /\ Cardinality(NumsOf(CreatedLines)) = 2
    /\ NumsOf(FailedLines) # {}

\* ------------------------------------------------------------------- C3

\* C3: no window in open_windows (find_open_windows) or matched_windows
\* (find_windows) has an app name whose lower-case form contains an entry
\* of the ignore list, and total_windows counts no record whose owner name,
\* as the function reads it, does.
C3_IgnoredNeverReturned ==
    /\ \A j \in 1..Len(open_windows) :
          ~NameHitsIgnoreList(open_windows[j].app_name, ignored_apps)
    /\ \A j \in 1..Len(matched_windows) :
          ~NameHitsIgnoreList(matched_windows[j].app_name, criteria.ignored_apps)
    /\ (results # None /\ Unwrap(results).ok) =>
          /\ Unwrap(results).val.open_windows = open_windows
          /\ Unwrap(results).val.total_windows <=
                Cardinality({ j \in 1..Len(Unwrap(window_list)) :
                    /\ ~Unwrap(window_list)[j].null
                    /\ ~NameHitsIgnoreList(UnwrapOr(Unwrap(window_list)[j].owner, Str_Unknown),
                                           ignored_apps) })
    /\ (fw_results # None /\ Unwrap(fw_results).ok) =>
          /\ Unwrap(fw_results).val.matched_windows = matched_windows
          /\ Unwrap(fw_results).val.total_windows <=
                Cardinality({ j \in 1..Len(Unwrap(window_list)) :
                    /\ ~Unwrap(window_list)[j].null
                    /\ ~NameHitsIgnoreList(UnwrapOr(Unwrap(window_list)[j].owner, <<>>),
                                           criteria.ignored_apps) })

\* Both queries have returned on a list holding a window of "MyDockApp"
\* and one of "Finder", with "dock" ignored: one window each, one counted.
C3_Witness ==
    /\ fw_results # None /\ Unwrap(fw_results).ok
    /\ criteria.ignored_apps = {Str_dock}
    /\ \E j \in 1..Len(Unwrap(window_list)) :
          Unwrap(window_list)[j].owner = Some(Str_MyDockApp)
    /\ Len(open_windows) = 1
    /\ Len(matched_windows) = 1
    /\ Unwrap(results).val.total_windows = 1
    /\ Unwrap(fw_results).val.total_windows = 1

\* ------------------------------------------------------------------- C4

\* C4: matches returns true exactly when the app is not ignored, the title
\* criterion is unset or equals the window title, and the app-name
\* criterion is unset or equals the window's app name.
C4_MatchesExactly ==
    m_result # None =>
        LET window_title == Unwrap(m_call)[1]
            window_app_name == Unwrap(m_call)[2]
        IN  Unwrap(m_result) =
              ( /\ ~NameHitsIgnoreList(window_app_name, criteria.ignored_apps)
                /\ (criteria.title = None \/ criteria.title = Some(window_title))
                /\ (criteria.app_name = None \/ criteria.app_name = Some(window_app_name)) )

\* A window accepted with the title criterion unset and the app name set.
C4_Witness ==
    /\ m_result = Some(TRUE)
    /\ criteria.title = None
    /\ criteria.app_name = Some(Str_Finder)
    /\ criteria.ignored_apps = {Str_dock}

\* ------------------------------------------------------------------- C5

\* C5: a panel made for a window whose compositor bounds are (x, y, w, h),
\* on a screen of height H, has the frame (x, H - y - h, w + 300, h), and
\* its content view the frame (0, 0, w + 300, h).
C5_PanelFrame ==
    \A j \in 1..Len(panels) :
        /\ j <= Len(CreatedLines)
        /\ LET d == DictOfNumber(CreatedLines[j].n)
           IN  IsSome(d.bounds) =>
                 LET x == Unwrap(d.bounds)[1]
                     y == Unwrap(d.bounds)[2]
                     w == Unwrap(d.bounds)[3]
                     h == Unwrap(d.bounds)[4]
                 IN  /\ panels[j].frame = <<x, screen_height - y - h, w + 300, h>>
                     /\ panels[j].content_view = <<0, 0, w + 300, h>>

\* The Finder window at (10, 20, 30, 40) on the screen of height 1080.
C5_Witness ==
    /\ screen_height = 1080
    /\ Len(panels) >= 1
    /\ panels[1].frame = <<10, 1020, 330, 40>>
    /\ panels[1].content_view = <<0, 0, 330, 40>>

\* ------------------------------------------------------------------- C6

\* The order of main's steps, as a state predicate: a window is handled
\* only after find_open_windows has gone through the whole list and
\* returned Ok; the windows handled so far are the first k matched windows,
\* in order; and app.run() is entered only with every matched window
\* handled and a panel made.
C6_Order ==
    /\ (WindowLines # <<>> \/ panels # <<>>) =>
          /\ results # None /\ Unwrap(results).ok
          /\ i = Len(Unwrap(window_list))
    /\ Len(WindowLines) = k
    /\ k <= Len(MatchedWindows)
    /\ \A j \in 1..Len(WindowLines) : WindowLines[j].n = MatchedWindows[j].window_number
    /\ pc = "run" =>
          /\ Len(WindowLines) = Len(MatchedWindows)
          /\ panels # <<>>

\* One at a time: a step handles at most one window and makes at most one
\* panel, and the query's result does not change once it is returned.
C6_OneAtATime ==
    /\ Len(WindowLinesOf(stdout')) <= Len(WindowLines) + 1
    /\ Len(panels') <= Len(panels) + 1
    /\ results # None => results' = results

\* C6: in every run of main the query and the title filter finish before
\* any overlay is made, overlays are made one at a time in the order of the
\* matched windows, and the run loop is entered only after every matched
\* window has been tried and only with at least one panel.
C6_ControlFlow == []C6_Order /\ [][C6_OneAtATime]_vars

C6_Witness ==
    /\ pc = "run"
    /\ Len(panels) = 2
    /\ Len(MatchedWindows) = 3

\* ------------------------------------------------------------------- C7

\* C7: once the loop is over every matched window has been tried, in
\* order, whatever failed before it; panels holds one panel for each
\* window logged as created, in that order (told by the button's title and
\* the frame), and none for those logged as failed.
C7_LogAndSkip ==
    (PassOver /\ results # None /\ Unwrap(results).ok) =>
        /\ Len(WindowLines) = Len(MatchedWindows)
        /\ \A j \in 1..Len(WindowLines) : WindowLines[j].n = MatchedWindows[j].window_number
        /\ Len(panels) = Len(CreatedLines)
        /\ \A j \in 1..Len(panels) :
              \E m \in 1..Len(MatchedWindows) :
                 /\ MatchedWindows[m].window_number = CreatedLines[j].n
                 /\ panels[j].button_title = Str_PanelDetected \o MatchedWindows[m].app_name
                 /\ panels[j].frame[1] = UnwrapOr(DictOfNumber(CreatedLines[j].n).bounds,
                                                  <<0, 0, 0, 0>>)[1]

\* A failed window followed by a created one.
C7_Witness ==
    /\ PassOver
    /\ \E j \in 1..(Len(WindowLines) - 1) :
          /\ WindowLines[j].tag = "failed"
          /\ WindowLines[j + 1].tag = "created"
    /\ Len(panels) = 1

\* ------------------------------------------------------------------- C8

\* C8: a matched window whose record has no bounds entry gets no overlay
\* panel: its creation is logged as failed.
C8_MissingBoundsSkipped ==
    \A j \in 1..Len(WindowLines) :
        DictOfNumber(WindowLines[j].n).bounds = None => WindowLines[j].tag = "failed"

\* ------------------------------------------------------------------- C9

\* The window list is null, or holds no window that is not ignored and is
\* titled exactly "Open".
NothingToOverlay ==
    /\ pc # "main"
    /\ \/ window_list = None
       \/ \A j \in 1..Len(Unwrap(window_list)) :
             LET d == Unwrap(window_list)[j]
             IN  \/ d.null
                 \/ d.title # Some(Str_Open)
                 \/ NameHitsIgnoreList(UnwrapOr(d.owner, Str_Unknown), get_ignored_apps)

\* The loop is over and every creation failed.
EveryCreationFailed ==
    /\ pc \in {"create", "run", "complete", "exit"}
    /\ k = Len(MatchedWindows)
    /\ CreatedLines = <<>>

C9_NoOverlayNoRunLoop ==
    /\ (NothingToOverlay \/ EveryCreationFailed) => (panels = <<>> /\ pc # "run")
    /\ pc = "run" => (~NothingToOverlay /\ CreatedLines # <<>>)
    /\ pc = "exit" => stdout[Len(stdout)] = Line("complete", 0)

\* C9: with a null window list, no matching window, or every creation
\* failed, main holds no panel, never enters the run loop, and ends after
\* printing "Complete!"; the run loop is entered only otherwise.
C9_TerminatesWithoutOverlays ==
    /\ []C9_NoOverlayNoRunLoop
    /\ (NothingToOverlay \/ EveryCreationFailed) ~> (pc = "exit")

\* main has ended after trying two windows and failing at both.
C9_Witness ==
    /\ pc = "exit"
    /\ Len(FailedLines) = 2
    /\ CreatedLines = <<>>
    /\ panels = <<>>

\* ------------------------------------------------------------------ C10

\* A part of the string that starts with one of the four tags and whose
\* rest is not a number.
HasInvalidField(s) ==
    \E j \in 1..Len(Split(s, CommaSpace)) :
        \E tag \in {Str_x, Str_y, Str_w, Str_h} :
            LET rest == StripPrefix(Split(s, CommaSpace)[j], tag)
            IN  IsSome(rest) /\ ParseNum(Unwrap(rest)) = None

\* C10: the string made from a bounds record (X, Y, W, H) parses back to
\* Some((X, Y, W, H)); a string with a tagged field that is not a number
\* parses to None.
C10_RoundTrip ==
    b_parsed # None =>
        /\ (b_dict # None /\ IsSome(Unwrap(b_dict).bounds)) =>
              Unwrap(b_parsed) = Some(Unwrap(Unwrap(b_dict).bounds))
        /\ HasInvalidField(Unwrap(b_str)) => Unwrap(b_parsed) = None

\* The record (-5, 12, 7, 0) has gone through the string and back.
C10_Witness ==
    /\ b_dict # None
    /\ Unwrap(b_dict).bounds = Some(<<-5, 12, 7, 0>>)
    /\ b_parsed = Some(Some(<<-5, 12, 7, 0>>))

\* ---------------------------------------------------------------- C11

\* The names in the ignore-list after the builder calls cs, as the caller
\* gave them: with_ignored_apps replaces them by its set, add_ignored_app
\* adds its name.
RECURSIVE PutNames(_)
PutNames(cs) ==
    IF cs = <<>> THEN {}
    ELSE LET last == cs[Len(cs)]
             before == SubSeq(cs, 1, Len(cs) - 1)
         IN  IF last.method = "with_ignored_apps" THEN last.arg
             ELSE IF last.method = "add_ignored_app" THEN PutNames(before) \cup {last.arg}
             ELSE PutNames(before)

\* The window records of the list whose owner name is, letter case aside,
\* one of the names.
RecordsNamed(names) ==
    IF window_list = None THEN {}
    ELSE { d \in { Unwrap(window_list)[j] : j \in 1..Len(Unwrap(window_list)) } :
              /\ ~d.null
              /\ d.owner # None
              /\ \E n \in names : ToLowercase(Unwrap(d.owner)) = ToLowercase(n) }

\* C11: however the criteria were built (new, then any with_title,
\* with_app_name, with_ignored_apps and add_ignored_app calls), a window
\* whose app name equals, letter case aside, a name put in the ignore-list
\* and not replaced since is never pushed to matched_windows and never in
\* what find_windows returns.
C11_PutNamesNeverReturned ==
    \A d \in RecordsNamed(PutNames(calls)) :
        /\ \A j \in 1..Len(matched_windows) :
              matched_windows[j].window_number # Unwrap(d.number)
        /\ (fw_results # None /\ Unwrap(fw_results).ok) =>
              \A j \in 1..Len(Unwrap(fw_results).val.matched_windows) :
                  Unwrap(fw_results).val.matched_windows[j].window_number
                      # Unwrap(d.number)

\* ---------------------------------------------------------------- C12

\* The places in the window list of the non-null records whose owner name,
\* as find_windows reads it, hits no entry of the criteria's ignore-list.
NotIgnoredPlaces ==
    { j \in 1..Len(Unwrap(window_list)) :
         /\ ~Unwrap(window_list)[j].null
         /\ ~NameHitsIgnoreList(UnwrapOr(Unwrap(window_list)[j].owner, <<>>),
                                criteria.ignored_apps) }

\* Whether window w was made from the record d.
MadeFrom(w, d) ==
    /\ w.window_number = UnwrapOr(d.number, 0)
    /\ w.pid = UnwrapOr(d.pid, 0)
    /\ w.title = UnwrapOr(d.title, <<>>)
    /\ w.app_name = UnwrapOr(d.owner, <<>>)

\* C12: find_windows returns total_windows equal to the number of non-null
\* records whose app is not ignored; matched_windows is a sub-sequence of
\* those records in the list's order, none twice; so matched_windows.len()
\* <= total_windows <= the list's length; and with the criteria of new()
\* every record is matched and matched_windows.len() = total_windows.
C12_CountersAndOrder ==
    (fw_results # None /\ Unwrap(fw_results).ok) =>
        LET res == Unwrap(fw_results).val
            list == Unwrap(window_list)
            n == Len(res.matched_windows)
        IN  /\ res.total_windows = Cardinality(NotIgnoredPlaces)
            /\ \E f \in [1..n -> NotIgnoredPlaces] :
                  /\ \A a, b \in 1..n : a < b => f[a] < f[b]
                  /\ \A a \in 1..n : MadeFrom(res.matched_windows[a], list[f[a]])
            /\ n <= res.total_windows
            /\ res.total_windows <= Len(list)
            /\ criteria = NewCriteria =>
                  /\ n = res.total_windows
                  /\ \A j \in 1..Len(list) :
                        ~list[j].null =>
                            \E a \in 1..n : MadeFrom(res.matched_windows[a], list[j])

\* find_windows has returned on a list of two windows, neither ignored,
\* with only the second matching the title "Open": two counted, one matched.
C12_Witness ==
    /\ fw_results # None /\ Unwrap(fw_results).ok
    /\ criteria.title = Some(Str_Open)
    /\ window_list = Some(<<SafariNoTitle, FinderOpen>>)
    /\ Unwrap(fw_results).val.total_windows = 2
    /\ Len(Unwrap(fw_results).val.matched_windows) = 1
    /\ Unwrap(fw_results).val.matched_windows[1].window_number = 1

\* ---------------------------------------------------------------- C13

\* What the two queries' windows have in common: window number, title,
\* bounds and pid.
SharedFields(w) ==
    [window_number |-> w.window_number, title |-> w.title,
     bounds |-> w.bounds, pid |-> w.pid]

SharedFieldsOf(ws) == [j \in 1..Len(ws) |-> SharedFields(ws[j])]

\* find_open_windows(ignored) and find_windows(criteria with title "Open",
\* no app name and the same ignore-list) have both returned.
BothQueriesReturned ==
    /\ criteria.title = Some(Str_Open)
    /\ criteria.app_name = None
    /\ criteria.ignored_apps = ignored_apps
    /\ results # None
    /\ fw_results # None

\* C13: on every window list (records with a missing title or owner name
\* included) and every ignore-list, find_open_windows(ignored) and
\* find_windows(criteria with title "Open" and the same ignore-list) return
\* the same total_windows and the same windows, in the same order.
C13_QueriesAgree ==
    BothQueriesReturned =>
        /\ Unwrap(results).ok = Unwrap(fw_results).ok
        /\ Unwrap(results).ok =>
              /\ Unwrap(results).val.total_windows =
                    Unwrap(fw_results).val.total_windows
              /\ SharedFieldsOf(Unwrap(results).val.open_windows) =
                    SharedFieldsOf(Unwrap(fw_results).val.matched_windows)

====
